---- MODULE Spec2Model ----
(***************************************************************************)
(* State machine of the App component of src/index.tsx ("O Que Tem Aí?"):  *)
(* the React state of the component, the preview <video> element behind    *)
(* videoRef, the device streams handed out by getUserMedia, and the        *)
(* pending promises of startCamera, captureAndAnalyze and generateRecipe.  *)
(*                                                                         *)
(* Strings that the code concatenates or trims (the ingredient text) are   *)
(* sequences of one-character strings.  An optional value (Recipe | null,  *)
(* an optional field of the parsed JSON) is << >> when absent and <<v>>    *)
(* when present.  A device stream is a positive number; 0 is a null        *)
(* srcObject.                                                              *)
(***************************************************************************)
EXTENDS Integers, Sequences, FiniteSets, TLC

\* ---------------------------------------------------------------- bounds
\* getUserMedia is called at most MaxRequests times in a behaviour.
MaxRequests == 2
\* The ingredient text is at most MaxInputLen characters long.
MaxInputLen == 4
\* At most MaxTimers setTimeout callbacks of copyAsMarkdown are pending.
MaxTimers == 1

\* ------------------------------------------------------- program constants
\* disabled={loading || variationCount >= 3}
VariationLimit == 3

\* The preference chips the user clicks: two of the four that are rendered.
Preferences == {"Saudável", "Vegano"}

\* ------------------------------------------------------- environment inputs
\* Texts the user types into the textarea.
TypedInputs == { <<>>, <<" ">>, <<"e">> }

\* response.text of the vision call; << >> is an empty or undefined text.
DetectedTexts == { <<>>, <<"t">> }

\* response.text of the structured call, by shape.
ResponseTexts == {"empty", "malformed", "emptyLists", "noTip", "withTip"}

VARIABLES
    input,           \* useState('')        ingredient text
    preference,      \* useState('')
    recipe,          \* useState<Recipe | null>(null)
    loading,         \* useState(false)
    isCameraOpen,    \* useState(false)
    isAnalyzing,     \* useState(false)
    variationCount,  \* useState(0)
    videoRef,        \* videoRef.current is an element (the modal is rendered)
    srcObject,       \* videoRef.current.srcObject: a stream, or 0
    pendingMedia,    \* getUserMedia promises not yet settled
    requests,        \* getUserMedia calls made so far
    acquired,        \* streams delivered so far; they are 1..acquired
    live,            \* delivered streams whose tracks have not been stopped
    visionPending,   \* the vision call of captureAndAnalyze is awaited
    genPc,           \* generateRecipe: "idle", "text" or "image" call awaited
    genIsVariation,  \* isVariation of the cycle in flight
    recipeData,      \* recipeData of the cycle in flight
    mounted,         \* the React tree is mounted (no render has thrown); once
                     \* it is not, nothing is rendered, no control can be
                     \* used, and the state below is what the setters of the
                     \* continuations still in flight last wrote
    notice,          \* the last alert() shown
    ev,              \* the last step taken ("visionEmpty": the vision call
                     \* returned an empty text, "visionOk": a non-empty one)
    threadRecipes,   \* history: setRecipe calls since the last fresh start
    analysisSession, \* history: the capture session (the number of its
                     \* getUserMedia call) that started the analysis in
                     \* flight, 0 if none is in flight
    copied,          \* useState(false)
    copyTimers,      \* pending setTimeout(() => setCopied(false), 2000)
    clipboard,       \* the text last given to navigator.clipboard.writeText
    shared,          \* the data last given to navigator.share, or << >>
    canShare         \* navigator.share exists on this platform

vars == << input, preference, recipe, loading, isCameraOpen, isAnalyzing,
           variationCount, videoRef, srcObject, pendingMedia, requests,
           acquired, live, visionPending, genPc, genIsVariation, recipeData,
           mounted, notice, ev, threadRecipes, analysisSession, copied,
           copyTimers,
           clipboard, shared, canShare >>

camVars == << isCameraOpen, videoRef, srcObject, pendingMedia, requests,
              acquired, live >>
anaVars == << isAnalyzing, visionPending, analysisSession >>
genVars == << loading, variationCount, genPc, genIsVariation, recipeData,
              threadRecipes >>
formVars == << input, preference >>
exportVars == << copied, copyTimers, clipboard, shared, canShare >>

\* ----------------------------------------------------------------- helpers
Null == << >>
Some(v) == << v >>

\* String.prototype.trim on a sequence of characters.
RECURSIVE TrimStart(_)
TrimStart(s) ==
    IF s # << >> /\ Head(s) = " " THEN TrimStart(Tail(s)) ELSE s

RECURSIVE TrimEnd(_)
TrimEnd(s) ==
    IF s # << >> /\ s[Len(s)] = " " THEN TrimEnd(SubSeq(s, 1, Len(s) - 1)) ELSE s

Trim(s) == TrimEnd(TrimStart(s))

Init ==
    /\ input = << >>
    /\ preference = ""
    /\ recipe = Null
    /\ loading = FALSE
    /\ isCameraOpen = FALSE
    /\ isAnalyzing = FALSE
    /\ variationCount = 0
    /\ videoRef = FALSE
    /\ srcObject = 0
    /\ pendingMedia = 0
    /\ requests = 0
    /\ acquired = 0
    /\ live = {}
    /\ visionPending = FALSE
    /\ genPc = "idle"
    /\ genIsVariation = FALSE
    /\ recipeData = Null
    /\ mounted = TRUE
    /\ notice = ""
    /\ ev = "init"
    /\ threadRecipes = 0
    /\ analysisSession = 0
    /\ copied = FALSE
    /\ copyTimers = 0
    /\ clipboard = << >>
    /\ shared = << >>
    /\ canShare = TRUE

\* The camera modal is a fixed full-screen layer above the page: while it is
\* rendered the controls of the page below it cannot be clicked.
PageReachable == mounted /\ ~isCameraOpen

\* ------------------------------------------------------------ the form
\* <textarea onChange={(e) => setInput(e.target.value)}>, in the !recipe view
TypeInput ==
    /\ PageReachable
    /\ recipe = Null
    /\ \E t \in TypedInputs : input' = t
    /\ ev' = "type"
    /\ UNCHANGED << preference, recipe, notice, mounted >>
    /\ UNCHANGED << camVars, anaVars, genVars >>
    /\ UNCHANGED exportVars

\* onClick={() => setPreference(prev => prev === pref ? '' : pref)}
TogglePreference ==
    /\ PageReachable
    /\ recipe = Null
    /\ \E pref \in Preferences :
          preference' = IF preference = pref THEN "" ELSE pref
    /\ ev' = "preference"
    /\ UNCHANGED << input, recipe, notice, mounted >>
    /\ UNCHANGED << camVars, anaVars, genVars >>
    /\ UNCHANGED exportVars

\* ------------------------------------------------------ capture session
\* Re-render after setIsCameraOpen(false): {isCameraOpen && (...)} removes the
\* modal, so the <video> element goes away and videoRef.current becomes null.
\* The element's stream is not touched by that.
CloseModal ==
    /\ isCameraOpen' = FALSE
    /\ videoRef' = FALSE
    /\ srcObject' = 0

\* stopCamera without the getTracks().forEach(track => track.stop()) loop
StopCamera_KeepsTracks ==
    /\ live' = live
    /\ CloseModal

\* stopCamera: stops the tracks of the stream attached to the preview element,
\* if there is an element with a stream, and closes the camera UI.
StopCamera ==
    /\ live' = IF videoRef /\ srcObject # 0 THEN live \ {srcObject} ELSE live
    /\ CloseModal

\* startCamera up to the await: onClick={startCamera} of the scan button, in
\* the !recipe view.  The modal is rendered with a new <video> element.
StartCamera ==
    /\ PageReachable
    /\ recipe = Null
    /\ requests < MaxRequests
    /\ isCameraOpen' = TRUE
    /\ videoRef' = TRUE
    /\ srcObject' = 0
    /\ pendingMedia' = pendingMedia + 1
    /\ requests' = requests + 1
    /\ ev' = "startCamera"
    /\ UNCHANGED << acquired, live, recipe, notice, mounted >>
    /\ UNCHANGED << formVars, anaVars, genVars >>
    /\ UNCHANGED exportVars

\* startCamera after the await, getUserMedia resolved with a new stream:
\* if (videoRef.current) videoRef.current.srcObject = stream
AcquireOk ==
    /\ pendingMedia > 0
    /\ pendingMedia' = pendingMedia - 1
    /\ acquired' = acquired + 1
    /\ live' = live \cup {acquired + 1}
    /\ srcObject' = IF videoRef THEN acquired + 1 ELSE srcObject
    /\ ev' = "acquireOk"
    /\ UNCHANGED << isCameraOpen, videoRef, requests, recipe, notice, mounted >>
    /\ UNCHANGED << formVars, anaVars, genVars >>
    /\ UNCHANGED exportVars

\* startCamera after the await, getUserMedia rejected: the catch block
AcquireFail ==
    /\ pendingMedia > 0
    /\ pendingMedia' = pendingMedia - 1
    /\ notice' = "camera"
    /\ CloseModal
    /\ ev' = "acquireFail"
    /\ UNCHANGED << requests, acquired, live, recipe, mounted >>
    /\ UNCHANGED << formVars, anaVars, genVars >>
    /\ UNCHANGED exportVars

\* onClick={stopCamera} of the close button of the modal
ClickClose ==
    /\ mounted
    /\ isCameraOpen
    /\ StopCamera
    /\ ev' = "close"
    /\ UNCHANGED << pendingMedia, requests, acquired, recipe, notice, mounted >>
    /\ UNCHANGED << formVars, anaVars, genVars >>
    /\ UNCHANGED exportVars

\* captureAndAnalyze up to the await: onClick of the capture button,
\* disabled={isAnalyzing}.  The frame is drawn whether or not a stream is
\* attached yet, and the vision call is issued.  The canvas only ever gets
\* a 2d context, so getContext('2d') returns one and the if (context) branch
\* is the one taken.
Capture ==
    /\ mounted
    /\ isCameraOpen
    /\ ~isAnalyzing
    /\ videoRef
    /\ isAnalyzing' = TRUE
    /\ visionPending' = TRUE
    /\ analysisSession' = requests
    /\ ev' = "capture"
    /\ UNCHANGED << recipe, notice, mounted >>
    /\ UNCHANGED << formVars, camVars, genVars >>
    /\ UNCHANGED exportVars

\* the merge without the ", " separator
MergeDetected_NoSeparator(prev, detectedIngredients) ==
    prev \o detectedIngredients

\* setInput(prev => prev ? `${prev}, ${detectedIngredients}` : detectedIngredients)
MergeDetected(prev, detectedIngredients) ==
    IF prev # << >> THEN prev \o <<",", " ">> \o detectedIngredients
    ELSE detectedIngredients

\* the merge without the if (detectedIngredients) test
InputAfterAnalysis_NoCheck(prev, detectedIngredients) ==
    MergeDetected(prev, detectedIngredients)

\* input after the vision call returned the text detectedIngredients
InputAfterAnalysis(prev, detectedIngredients) ==
    IF detectedIngredients # << >> THEN MergeDetected(prev, detectedIngredients)
    ELSE prev

\* captureAndAnalyze after the await, the vision call returned
VisionOk ==
    /\ visionPending
    /\ \E d \in DetectedTexts :
          /\ Len(InputAfterAnalysis(input, d)) <= MaxInputLen
          /\ input' = InputAfterAnalysis(input, d)
          /\ ev' = IF d = << >> THEN "visionEmpty" ELSE "visionOk"
    /\ StopCamera
    /\ isAnalyzing' = FALSE
    /\ visionPending' = FALSE
    /\ analysisSession' = 0
    /\ UNCHANGED << preference, pendingMedia, requests, acquired,
                    recipe, notice, mounted >>
    /\ UNCHANGED genVars
    /\ UNCHANGED exportVars

\* captureAndAnalyze after the await, the vision call threw: catch and finally
VisionFail ==
    /\ visionPending
    /\ notice' = "analysis"
    /\ isAnalyzing' = FALSE
    /\ visionPending' = FALSE
    /\ analysisSession' = 0
    /\ ev' = "visionFail"
    /\ UNCHANGED << recipe, mounted >>
    /\ UNCHANGED << formVars, camVars, genVars >>
    /\ UNCHANGED exportVars

\* ------------------------------------------------------ generation cycle
\* A Recipe as JSON.parse returns it: every field may be missing.
RecipeObject(name, ingredients, instructions, totalTime, tip) ==
    [name |-> name, ingredients |-> ingredients, instructions |-> instructions,
     totalTime |-> totalTime, tip |-> tip, imageUrl |-> Null]

\* JSON.parse(response.text || "{}") for the texts that parse; an empty text
\* is parsed as "{}" and gives an object without fields.
ParseResponse(text) ==
    CASE text = "empty" ->
           RecipeObject(Null, Null, Null, Null, Null)
      [] text = "emptyLists" ->
           RecipeObject(Some("Omelete"), Some(<< >>), Some(<< >>),
                        Some("10 min"), Null)
      [] text = "noTip" ->
           RecipeObject(Some("Omelete"), Some(<<"ovo", "sal">>),
                        Some(<<"Bata", "Frite">>), Some("10 min"), Null)
      [] text = "withTip" ->
           RecipeObject(Some("Omelete"), Some(<<"ovo", "sal">>),
                        Some(<<"Bata", "Frite">>), Some("10 min"),
                        Some("Fogo baixo"))

\* JSON.parse throws a SyntaxError on a text that is not JSON.
ParseThrows(text) == text = "malformed"

\* The recipe view calls recipe.ingredients.map and recipe.instructions.map:
\* rendering a recipe without one of the arrays throws.
RenderThrows(r) ==
    r # Null /\ (r[1].ingredients = Null \/ r[1].instructions = Null)

\* the create button without the loading test
CreateDisabled_IgnoresLoading == Trim(input) = << >>

\* disabled={loading || !input.trim()} of the create button
CreateDisabled == loading \/ Trim(input) = << >>

\* the variation button with the bound off by one
VariationDisabled_OffByOne == loading \/ variationCount > VariationLimit

\* disabled={loading || variationCount >= 3} of the variation button
VariationDisabled == loading \/ variationCount >= VariationLimit

\* generateRecipe without the if (!input.trim()) return
GenerateRecipe_NoBlankCheck(isVariation) ==
    /\ loading' = TRUE
    /\ variationCount' = IF isVariation THEN variationCount ELSE 0
    /\ threadRecipes' = IF isVariation THEN threadRecipes ELSE 0
    /\ genPc' = "text"
    /\ genIsVariation' = isVariation
    /\ recipeData' = Null
    /\ ev' = IF isVariation THEN "startVariation" ELSE "startCreate"

\* generateRecipe without the if (!isVariation) setVariationCount(0)
GenerateRecipe_NoCounterReset(isVariation) ==
    IF Trim(input) = << >>
    THEN /\ ev' = "generateBlank"
         /\ UNCHANGED genVars
    ELSE /\ loading' = TRUE
         /\ variationCount' = variationCount
         /\ threadRecipes' = IF isVariation THEN threadRecipes ELSE 0
         /\ genPc' = "text"
         /\ genIsVariation' = isVariation
         /\ recipeData' = Null
         /\ ev' = IF isVariation THEN "startVariation" ELSE "startCreate"

\* generateRecipe up to the first await
GenerateRecipe(isVariation) ==
    IF Trim(input) = << >>
    THEN /\ ev' = "generateBlank"
         /\ UNCHANGED genVars
    ELSE /\ loading' = TRUE
         /\ variationCount' = IF isVariation THEN variationCount ELSE 0
         /\ threadRecipes' = IF isVariation THEN threadRecipes ELSE 0
         /\ genPc' = "text"
         /\ genIsVariation' = isVariation
         /\ recipeData' = Null
         /\ ev' = IF isVariation THEN "startVariation" ELSE "startCreate"

\* onClick={() => generateRecipe()} of the create button, in the !recipe view
ClickCreate ==
    /\ PageReachable
    /\ recipe = Null
    /\ ~CreateDisabled
    /\ GenerateRecipe(FALSE)
    /\ UNCHANGED << recipe, notice, mounted >>
    /\ UNCHANGED << formVars, camVars, anaVars >>
    /\ UNCHANGED exportVars

\* onClick={() => generateRecipe(true)} of the variation button, in the
\* recipe view
ClickVariation ==
    /\ PageReachable
    /\ recipe # Null
    /\ ~VariationDisabled
    /\ GenerateRecipe(TRUE)
    /\ UNCHANGED << recipe, notice, mounted >>
    /\ UNCHANGED << formVars, camVars, anaVars >>
    /\ UNCHANGED exportVars

\* the outer catch also clearing the displayed recipe
GenerationFailed_ClearsRecipe ==
    /\ loading' = FALSE
    /\ genPc' = "idle"
    /\ recipeData' = Null
    /\ recipe' = Null
    /\ UNCHANGED << variationCount, genIsVariation, threadRecipes,
                    notice, mounted >>
    /\ UNCHANGED << formVars, camVars, anaVars >>

\* the outer catch without the finally block
GenerationFailed_KeepsLoading ==
    /\ genPc' = "idle"
    /\ recipeData' = Null
    /\ UNCHANGED << loading, variationCount, genIsVariation, threadRecipes,
                    recipe, notice, mounted >>
    /\ UNCHANGED << formVars, camVars, anaVars >>

\* generateRecipe: the outer catch, then finally
GenerationFailed ==
    /\ loading' = FALSE
    /\ genPc' = "idle"
    /\ recipeData' = Null
    /\ UNCHANGED << variationCount, genIsVariation, threadRecipes,
                    recipe, notice, mounted >>
    /\ UNCHANGED << formVars, camVars, anaVars >>

\* the image call issued although the structured call threw
TextThrow_StillImages ==
    /\ genPc = "text"
    /\ recipeData' = Some(RecipeObject(Null, Null, Null, Null, Null))
    /\ genPc' = "image"
    /\ ev' = "textThrow"
    /\ UNCHANGED << loading, variationCount, genIsVariation, threadRecipes,
                    recipe, notice, mounted >>
    /\ UNCHANGED << formVars, camVars, anaVars, exportVars >>

\* the structured call threw
TextThrow ==
    /\ genPc = "text"
    /\ GenerationFailed
    /\ ev' = "textThrow"
    /\ UNCHANGED exportVars

\* the structured call returned a text: it is parsed and, unless the parse
\* throws, the image call is issued
TextResponse ==
    /\ genPc = "text"
    /\ \E text \in ResponseTexts :
          IF ParseThrows(text)
          THEN /\ GenerationFailed
               /\ ev' = "textUnparsable"
          ELSE /\ recipeData' = Some(ParseResponse(text))
               /\ genPc' = "image"
               /\ ev' = "textOk"
               /\ UNCHANGED << loading, variationCount, genIsVariation,
                               threadRecipes, recipe, notice, mounted >>
               /\ UNCHANGED << formVars, camVars, anaVars >>
    /\ UNCHANGED exportVars

\* recipeData.imageUrl = `data:image/png;base64,${part.inlineData.data}`
WithImage(r, data) == [r EXCEPT !.imageUrl = Some(<<"data:image/png;base64,", data>>)]

\* the counter incremented without looking at isVariation
CountAfterSuccess_Always(count, isVariation) == count + 1

\* variationCount after a cycle took the success path
CountAfterSuccess(count, isVariation) ==
    IF isVariation THEN count + 1 ELSE count

\* generateRecipe after the inner try/catch: setRecipe(recipeData), the
\* counter, finally; then the re-render, which unmounts the tree if it throws
FinishGeneration(shown) ==
    /\ recipe' = Some(shown)
    /\ variationCount' =
          CountAfterSuccess(variationCount, genIsVariation)
    /\ threadRecipes' = threadRecipes + 1
    /\ loading' = FALSE
    /\ genPc' = "idle"
    /\ recipeData' = Null
    /\ mounted' = (mounted /\ ~RenderThrows(Some(shown)))
    /\ videoRef' = (videoRef /\ mounted')
    /\ srcObject' = IF mounted' THEN srcObject ELSE 0
    /\ UNCHANGED << genIsVariation, isCameraOpen, pendingMedia, requests,
                    acquired, live, notice >>
    /\ UNCHANGED << formVars, anaVars >>

\* the image call without its own try/catch: the error reaches the outer catch
ImageThrow_Propagates ==
    /\ genPc = "image"
    /\ GenerationFailed
    /\ ev' = "imageThrow"
    /\ UNCHANGED exportVars

\* the image call threw: the inner catch
ImageThrow ==
    /\ genPc = "image"
    /\ FinishGeneration(recipeData[1])
    /\ ev' = "imageThrow"
    /\ UNCHANGED exportVars

\* the image call returned no part with inlineData
ImageNone ==
    /\ genPc = "image"
    /\ FinishGeneration(recipeData[1])
    /\ ev' = "imageNone"
    /\ UNCHANGED exportVars

\* the image call returned an image part
ImageOk ==
    /\ genPc = "image"
    /\ FinishGeneration(WithImage(recipeData[1], "iVBOR"))
    /\ ev' = "imageOk"
    /\ UNCHANGED exportVars

\* the reset handler with a setVariationCount(0) added
Reset_ZeroesCounter ==
    /\ PageReachable
    /\ recipe # Null
    /\ recipe' = Null
    /\ input' = << >>
    /\ preference' = ""
    /\ variationCount' = 0
    /\ ev' = "reset"
    /\ UNCHANGED << notice, mounted >>
    /\ UNCHANGED << loading, genPc, genIsVariation, recipeData, threadRecipes >>
    /\ UNCHANGED << camVars, anaVars >>
    /\ UNCHANGED exportVars

\* onClick={() => { setRecipe(null); setInput(''); setPreference(''); }}
\* of the "nova busca" button, rendered when a recipe is displayed
Reset ==
    /\ PageReachable
    /\ recipe # Null
    /\ recipe' = Null
    /\ input' = << >>
    /\ preference' = ""
    /\ ev' = "reset"
    /\ UNCHANGED << notice, mounted >>
    /\ UNCHANGED << camVars, anaVars, genVars >>
    /\ UNCHANGED exportVars

\* ---------------------------------------------------------------- export
\* Texts of the export are sequences of pieces: the literal parts of the
\* template (without their emoji), the fields of the recipe, and "\n" for a
\* line break.

\* Array.prototype.join
RECURSIVE Join(_, _)
Join(parts, sep) ==
    IF parts = << >> THEN << >>
    ELSE IF Len(parts) = 1 THEN parts[1]
    ELSE parts[1] \o sep \o Join(Tail(parts), sep)

\* `${value}` of a field that may be missing
Interpolate(field) == IF field = Null THEN "undefined" ELSE field[1]

\* recipe.ingredients.map(ing => `- ${ing}`)
BulletLines(ingredients) ==
    [i \in 1..Len(ingredients) |-> <<"- ", ingredients[i]>>]

\* the instructions numbered from 0
NumberedLines_ZeroBased(instructions) ==
    [i \in 1..Len(instructions) |-> <<ToString(i - 1), ". ", instructions[i]>>]

\* recipe.instructions.map((step, i) => `${i + 1}. ${step}`)
NumberedLines(instructions) ==
    [i \in 1..Len(instructions) |-> <<ToString(i), ". ", instructions[i]>>]

TipHeading == "> **Dica do Chef:** "

\* recipe.tip ? `\n\n> **Dica do Chef:** ${recipe.tip}` : ""
TipSection(tip) ==
    IF tip # Null /\ tip[1] # "" THEN <<"\n", "\n", TipHeading, tip[1]>>
    ELSE << >>

TitleMark == "# "
TimeMark == "**Tempo total:** "
IngredientsHeading == "## Ingredientes"
InstructionsHeading == "## Modo de Preparo"

\* getMarkdownRecipe for the displayed recipe
GetMarkdownRecipe(r) ==
    IF r = Null THEN << >>
    ELSE <<TitleMark, Interpolate(r[1].name), "\n", "\n",
           TimeMark, Interpolate(r[1].totalTime), "\n", "\n",
           IngredientsHeading, "\n">>
         \o Join(BulletLines(r[1].ingredients[1]), <<"\n">>)
         \o <<"\n", "\n", InstructionsHeading, "\n">>
         \o Join(NumberedLines(r[1].instructions[1]), <<"\n">>)
         \o TipSection(r[1].tip)
         \o <<"\n", "\n", "---", "\n", "*Gerado por O Que Tem Aí?*">>

\* The export buttons are rendered in the recipe view.
ExportReachable == PageReachable /\ recipe # Null

\* copyAsMarkdown building its text from recipe.ingredients.reverse(), which
\* reverses the array of the displayed recipe in place
CopyAsMarkdown_ReversesInPlace ==
    /\ copyTimers < MaxTimers
    /\ clipboard' = GetMarkdownRecipe(recipe)
    /\ copied' = TRUE
    /\ copyTimers' = copyTimers + 1
    /\ recipe' =
          LET ing == recipe[1].ingredients[1]
          IN  Some([recipe[1] EXCEPT !.ingredients =
                      Some([i \in 1..Len(ing) |-> ing[Len(ing) + 1 - i]])])
    /\ UNCHANGED << shared, canShare, notice, mounted >>
    /\ UNCHANGED << formVars, camVars, anaVars, genVars >>

\* copyAsMarkdown: onClick of the copy button, and the fallback of shareRecipe
CopyAsMarkdown ==
    /\ copyTimers < MaxTimers
    /\ clipboard' = GetMarkdownRecipe(recipe)
    /\ copied' = TRUE
    /\ copyTimers' = copyTimers + 1
    /\ UNCHANGED << shared, canShare, recipe, notice, mounted >>
    /\ UNCHANGED << formVars, camVars, anaVars, genVars >>

\* onClick={copyAsMarkdown}
ClickCopy ==
    /\ ExportReachable
    /\ CopyAsMarkdown
    /\ ev' = "copy"

\* setTimeout(() => setCopied(false), 2000) fires
CopiedTimeout ==
    /\ copyTimers > 0
    /\ copied' = FALSE
    /\ copyTimers' = copyTimers - 1
    /\ ev' = "copiedTimeout"
    /\ UNCHANGED << clipboard, shared, canShare, recipe, notice, mounted >>
    /\ UNCHANGED << formVars, camVars, anaVars, genVars >>

\* shareRecipe where navigator.share exists: the text goes to the share sheet;
\* whether the promise resolves or rejects, no state is written
ShareNative ==
    /\ ExportReachable
    /\ canShare
    /\ shared' = Some([title |-> <<"Receita: ", Interpolate(recipe[1].name)>>,
                       text |-> GetMarkdownRecipe(recipe)])
    /\ ev' = "share"
    /\ UNCHANGED << copied, copyTimers, clipboard, canShare, recipe, notice,
                    mounted >>
    /\ UNCHANGED << formVars, camVars, anaVars, genVars >>

\* shareRecipe where navigator.share is missing: copyAsMarkdown()
ShareFallback ==
    /\ ExportReachable
    /\ ~canShare
    /\ CopyAsMarkdown
    /\ ev' = "shareCopy"

\* printToPdf: window.print()
PrintToPdf ==
    /\ ExportReachable
    /\ ev' = "print"
    /\ UNCHANGED << recipe, notice, mounted >>
    /\ UNCHANGED << formVars, camVars, anaVars, genVars, exportVars >>

\* Recipes that the recipe view can display, by the lengths of their lists
\* and the shape of their tip.
ExportIngredients == { << >>, <<"ovo">>, <<"ovo", "sal">> }
ExportInstructions == { << >>, <<"Bata">>, <<"Bata", "Frite", "Sirva">> }
ExportTips == { Null, Some(""), Some("Fogo baixo") }
ExportRecipes ==
    { RecipeObject(Some("Omelete"), Some(ing), Some(ins), Some("10 min"), tip) :
        ing \in ExportIngredients, ins \in ExportInstructions, tip \in ExportTips }

\* The recipe view with one of these recipes displayed, with or without its
\* image, on a platform with or without navigator.share.
ExportInit ==
    /\ input = <<"e">>
    /\ preference = ""
    /\ recipe \in { Some(r) : r \in ExportRecipes }
                  \cup { Some(WithImage(r, "iVBOR")) : r \in ExportRecipes }
    /\ loading = FALSE
    /\ isCameraOpen = FALSE
    /\ isAnalyzing = FALSE
    /\ variationCount = 0
    /\ videoRef = FALSE
    /\ srcObject = 0
    /\ pendingMedia = 0
    /\ requests = 0
    /\ acquired = 0
    /\ live = {}
    /\ visionPending = FALSE
    /\ genPc = "idle"
    /\ genIsVariation = FALSE
    /\ recipeData = Null
    /\ mounted = TRUE
    /\ notice = ""
    /\ ev = "init"
    /\ threadRecipes = 1
    /\ analysisSession = 0
    /\ copied = FALSE
    /\ copyTimers = 0
    /\ clipboard = << >>
    /\ shared = << >>
    /\ canShare \in BOOLEAN

ExportNext ==
    \/ ClickCopy
    \/ CopiedTimeout
    \/ ShareNative
    \/ ShareFallback
    \/ PrintToPdf

ExportSpec == ExportInit /\ [][ExportNext]_vars

Next ==
    \/ TypeInput
    \/ TogglePreference
    \/ StartCamera
    \/ AcquireOk
    \/ AcquireFail
    \/ ClickClose
    \/ Capture
    \/ VisionOk
    \/ VisionFail
    \/ ClickCreate
    \/ ClickVariation
    \/ TextThrow
    \/ TextResponse
    \/ ImageThrow
    \/ ImageNone
    \/ ImageOk
    \/ Reset

Spec == Init /\ [][Next]_vars

\* The page with every handler, export handlers included. It starts where the
\* ingredient "e" has been typed and getUserMedia has refused all but one of
\* the camera requests explored, so that one capture session runs next to the
\* generation cycles and the export handlers; further typing is left to Spec.
DisplayInit ==
    /\ input = <<"e">>
    /\ preference = ""
    /\ recipe = Null
    /\ loading = FALSE
    /\ isCameraOpen = FALSE
    /\ isAnalyzing = FALSE
    /\ variationCount = 0
    /\ videoRef = FALSE
    /\ srcObject = 0
    /\ pendingMedia = 0
    /\ requests = MaxRequests - 1
    /\ acquired = 0
    /\ live = {}
    /\ visionPending = FALSE
    /\ genPc = "idle"
    /\ genIsVariation = FALSE
    /\ recipeData = Null
    /\ mounted = TRUE
    /\ notice = "camera"
    /\ ev = "type"
    /\ threadRecipes = 0
    /\ analysisSession = 0
    /\ copied = FALSE
    /\ copyTimers = 0
    /\ clipboard = << >>
    /\ shared = << >>
    /\ canShare \in BOOLEAN

DisplayNext ==
    \/ TogglePreference
    \/ StartCamera
    \/ AcquireOk
    \/ AcquireFail
    \/ ClickClose
    \/ Capture
    \/ VisionOk
    \/ VisionFail
    \/ ClickCreate
    \/ ClickVariation
    \/ TextThrow
    \/ TextResponse
    \/ ImageThrow
    \/ ImageNone
    \/ ImageOk
    \/ Reset
    \/ ClickCopy
    \/ CopiedTimeout
    \/ ShareNative
    \/ ShareFallback
    \/ PrintToPdf

DisplaySpec == DisplayInit /\ [][DisplayNext]_vars

\* The busy flags under fair scheduling. A pending model call is a promise
\* that settles (the call returns or throws), so the continuation of each of
\* the three awaits eventually runs: weak fairness on the completions of the
\* vision call, the structured call and the image call. The clicks and
\* getUserMedia get no fairness. The preference chips only choose the text of
\* the prompt and are left to Spec.
BusyNext ==
    \/ TypeInput
    \/ StartCamera
    \/ AcquireOk
    \/ AcquireFail
    \/ ClickClose
    \/ Capture
    \/ VisionOk
    \/ VisionFail
    \/ ClickCreate
    \/ ClickVariation
    \/ TextThrow
    \/ TextResponse
    \/ ImageThrow
    \/ ImageNone
    \/ ImageOk
    \/ Reset

BusySpec ==
    /\ Init
    /\ [][BusyNext]_vars
    /\ WF_vars(VisionOk \/ VisionFail)
    /\ WF_vars(TextThrow \/ TextResponse)
    /\ WF_vars(ImageThrow \/ ImageNone \/ ImageOk)

\* ------------------------------------------------------------ properties
VisionReturned == {"visionOk", "visionEmpty"}
VisionDone == VisionReturned \cup {"visionFail"}
TextFailed == {"textThrow", "textUnparsable"}
ImageDone == {"imageThrow", "imageNone", "imageOk"}

C2_CancelReleasesEveryStream ==
    [][ /\ ev' = "close" =>
              /\ ~isCameraOpen'
              /\ srcObject # 0 => srcObject \notin live'
        /\ (ev' = "acquireOk" /\ ~isCameraOpen) =>
              (acquired + 1) \notin live' ]_vars

\* C3: while variationCount >= 3 no step starts a variation cycle and the only
\* step that issues a structured call is a fresh create; a thread (the recipes
\* set since the last fresh start) has at most 4 recipes.
C3_VariationBound ==
    /\ [][ variationCount >= VariationLimit =>
              /\ ev' # "startVariation"
              /\ (genPc' # genPc /\ genPc' = "text") => ev' = "startCreate" ]_vars
    /\ [](threadRecipes <= VariationLimit + 1)

C3_Witness ==
    /\ variationCount = VariationLimit
    /\ threadRecipes = VariationLimit + 1
    /\ recipe # Null
    /\ PageReachable
    /\ ~loading
    /\ Trim(input) # << >>

\* C4: a cycle whose structured call throws or returns a text that does not
\* parse changes the displayed recipe neither when it starts nor when it
\* fails, goes from the text call straight back to idle (no image call), and
\* ends with loading false.
C4_TextFailureShowsNothingNew ==
    [][ /\ ev' \in {"startCreate", "startVariation"} => recipe' = recipe
        /\ ev' \in TextFailed =>
              /\ recipe' = recipe
              /\ genPc = "text" /\ genPc' = "idle"
              /\ ~loading' ]_vars

C4_Witness ==
    /\ ev \in TextFailed
    /\ recipe # Null
    /\ genIsVariation
    /\ ~loading

\* C5, as stated: a displayed Recipe has a non-empty name and totalTime and
\* non-empty ingredients and instructions.
C5_DisplayedRecipeIsComplete ==
    recipe # Null =>
        /\ recipe[1].name # Null /\ recipe[1].name[1] # ""
        /\ recipe[1].totalTime # Null /\ recipe[1].totalTime[1] # ""
        /\ recipe[1].ingredients # Null /\ recipe[1].ingredients[1] # << >>
        /\ recipe[1].instructions # Null /\ recipe[1].instructions[1] # << >>

\* C6: whatever the image call does, the cycle displays the parsed recipe,
\* without imageUrl if the call threw or returned no image and with it
\* otherwise, updates the counter the same way and ends with loading false.
C6_ImageOutcomeDoesNotDecide ==
    [][ ev' \in ImageDone =>
          /\ recipe' # Null
          /\ [recipe'[1] EXCEPT !.imageUrl = Null] = recipeData[1]
          /\ (recipe'[1].imageUrl = Null) <=> (ev' # "imageOk")
          /\ variationCount' = IF genIsVariation THEN variationCount + 1
                                                 ELSE variationCount
          /\ ~loading'
          /\ genPc' = "idle" ]_vars

C6_Witness ==
    /\ ev = "imageThrow"
    /\ recipe # Null
    /\ recipe[1].imageUrl = Null
    /\ genIsVariation
    /\ variationCount = 2

\* C7, as stated: right after the reset, variationCount = 0.
C7_ResetZeroesCounter ==
    ev = "reset" => variationCount = 0

\* C7, amended: the reset clears the recipe, the ingredient text and the
\* preference and leaves variationCount as it was; the counter goes to 0 when
\* the next non-variation cycle starts.
C7_ResetKeepsCounterCreateZeroesIt ==
    [][ /\ ev' = "reset" =>
              /\ variationCount' = variationCount
              /\ recipe' = Null /\ input' = << >> /\ preference' = ""
        /\ ev' = "startCreate" => variationCount' = 0 ]_vars

C7_Witness ==
    /\ ev = "reset"
    /\ variationCount > 0
    /\ recipe = Null

\* C8: variationCount grows by exactly 1 in the step that completes a
\* variation cycle on its success path and in no other step; the failure of a
\* structured call and the success of a non-variation cycle leave it as it was.
C8_CounterCountsSuccessfulVariations ==
    [][ /\ (ev' \in ImageDone /\ genIsVariation) =>
              variationCount' = variationCount + 1
        /\ (ev' \in ImageDone /\ ~genIsVariation) =>
              variationCount' = variationCount
        /\ ev' \in TextFailed => variationCount' = variationCount
        /\ variationCount' > variationCount =>
              ev' \in ImageDone /\ genIsVariation ]_vars

C8_Witness ==
    /\ ev \in ImageDone
    /\ genIsVariation
    /\ variationCount = 1
    /\ threadRecipes = 2

\* C9, as stated: when getUserMedia rejects, the camera UI is closed, the
\* notice is raised, the stream the preview element held, if any, is not left
\* live, and input, preference, recipe, variationCount and loading are as
\* before.
C9_AcquireFailureEndsIdle ==
    [][ ev' = "acquireFail" =>
          /\ ~isCameraOpen'
          /\ notice' = "camera"
          /\ srcObject # 0 => srcObject \notin live'
          /\ UNCHANGED << input, preference, recipe, variationCount, loading >> ]_vars

\* C10: a vision call that throws, or returns an empty text, leaves the
\* ingredient text as it was; the text changes in an analysis only by merging
\* a non-empty detected text.
C10_FailedAnalysisKeepsInput ==
    [][ /\ ev' \in {"visionFail", "visionEmpty"} => input' = input
        /\ (ev' \in VisionDone /\ input' # input) =>
              /\ ev' = "visionOk"
              /\ \E d \in DetectedTexts \ {<< >>} :
                    input' = MergeDetected(input, d) ]_vars

C10_Witness ==
    /\ ev = "visionEmpty"
    /\ input # << >>

\* C11: a non-empty detected text D is merged into the ingredient text T of
\* that moment as T, then ", ", then D if T is not empty, and as D alone if it
\* is; nothing is deduplicated ("t" merged into "t" gives "t, t"), and
\* "egg, rice" with "tomato, onion" gives "egg, rice, tomato, onion".
EggRice == <<"e", "g", "g", ",", " ", "r", "i", "c", "e">>
TomatoOnion == <<"t", "o", "m", "a", "t", "o", ",", " ", "o", "n", "i", "o", "n">>

C11_MergePolicy ==
    /\ [][ ev' = "visionOk" =>
             \E d \in DetectedTexts \ {<< >>} :
                /\ input # << >> =>
                      /\ Len(input') = Len(input) + 2 + Len(d)
                      /\ SubSeq(input', 1, Len(input)) = input
                      /\ SubSeq(input', Len(input) + 1, Len(input) + 2) = <<",", " ">>
                      /\ SubSeq(input', Len(input) + 3, Len(input')) = d
                /\ input = << >> => input' = d ]_vars
    /\ [](/\ MergeDetected(EggRice, TomatoOnion)
               = EggRice \o <<",", " ">> \o TomatoOnion
          /\ MergeDetected(<< >>, TomatoOnion) = TomatoOnion
          /\ MergeDetected(<<"t">>, <<"t">>) = <<"t", ",", " ", "t">>)

C11_Witness ==
    /\ ev = "visionOk"
    /\ input = <<"t", ",", " ", "t">>

\* C12: the export text of a recipe starts with the title line holding the
\* name, followed in this order by the total-time line, the ingredients
\* heading with one "- " bullet line per ingredient in the original order, the
\* instructions heading with the steps numbered 1..n in the original order,
\* and the tip block if and only if the recipe has a (non-empty) tip; without
\* a tip the tip heading occurs nowhere in the text.
Positions(text, piece) == { i \in 1..Len(text) : text[i] = piece }
Rank(i, S) == Cardinality({ j \in S : j <= i })

WellFormedExport(text, r) ==
    LET time == Positions(text, TimeMark)
        ingHead == Positions(text, IngredientsHeading)
        insHead == Positions(text, InstructionsHeading)
        bullets == Positions(text, "- ")
        numbers == Positions(text, ". ")
        tips == Positions(text, TipHeading)
        hasTip == r.tip # Null /\ r.tip[1] # ""
    IN  /\ text[1] = TitleMark /\ text[2] = r.name[1] /\ text[3] = "\n"
        /\ Cardinality(time) = 1
        /\ Cardinality(ingHead) = 1
        /\ Cardinality(insHead) = 1
        /\ \A t \in time : /\ t > 3 /\ text[t - 1] = "\n"
                           /\ text[t + 1] = r.totalTime[1] /\ text[t + 2] = "\n"
                           /\ \A h \in ingHead : t < h
        /\ \A h \in ingHead : text[h - 1] = "\n" /\ text[h + 1] = "\n"
        /\ \A h \in insHead : text[h - 1] = "\n" /\ text[h + 1] = "\n"
        /\ \A h \in ingHead : \A g \in insHead : h < g
        /\ Cardinality(bullets) = Len(r.ingredients[1])
        /\ \A b \in bullets :
              /\ \A h \in ingHead : h < b
              /\ \A g \in insHead : b < g
              /\ text[b - 1] = "\n"
              /\ text[b + 1] = r.ingredients[1][Rank(b, bullets)]
              /\ text[b + 2] = "\n"
        /\ Cardinality(numbers) = Len(r.instructions[1])
        /\ \A n \in numbers :
              /\ \A g \in insHead : g < n
              /\ text[n - 2] = "\n"
              /\ text[n - 1] = ToString(Rank(n, numbers))
              /\ text[n + 1] = r.instructions[1][Rank(n, numbers)]
              /\ text[n + 2] = "\n"
        /\ hasTip <=> tips # {}
        /\ Cardinality(tips) <= 1
        /\ \A t \in tips :
              /\ \A n \in numbers : n < t
              /\ \A g \in insHead : g < t
              /\ text[t - 1] = "\n"
              /\ text[t + 1] = r.tip[1]

C12_ExportLayout ==
    [][ /\ ev' \in {"copy", "shareCopy"} => WellFormedExport(clipboard', recipe[1])
        /\ ev' = "share" => WellFormedExport(shared'[1].text, recipe[1]) ]_vars

C12_Witness ==
    /\ ev = "copy"
    /\ recipe[1].tip = Some("Fogo baixo")
    /\ Len(recipe[1].ingredients[1]) = 2
    /\ Len(recipe[1].instructions[1]) = 3
    /\ Len(clipboard) = 39

\* C13: generateRecipe called with an ingredient text that is blank after
\* trimming issues no call and leaves loading, recipe and variationCount as
\* they were, and no cycle, plain or variation, starts from a blank text.
C13_BlankInputIsNoOp ==
    [][ /\ ev' = "generateBlank" =>
              /\ Trim(input) = << >>
              /\ UNCHANGED << loading, recipe, variationCount, genPc >>
        /\ ev' \in {"startCreate", "startVariation"} => Trim(input) # << >>
        /\ (genPc' = "text" /\ genPc # "text") => Trim(input) # << >> ]_vars

C13_Witness ==
    /\ ev = "generateBlank"
    /\ recipe # Null
    /\ input = <<" ">>
    /\ ~loading
    /\ genPc = "idle"

\* C14, as stated: a variation cycle during which the user reset the session
\* (the recipe it started from is gone while it is in flight) sets no recipe
\* and leaves variationCount as it was when it completes.
C14_ResultDiscardedAfterReset ==
    [][ (ev' \in ImageDone /\ genIsVariation /\ recipe = Null) =>
          /\ recipe' = Null
          /\ variationCount' = variationCount ]_vars

\* C15: a cycle starts only when none is in flight: loading is true for the
\* whole of a cycle, and the create and variation buttons start a cycle only
\* with loading false and generateRecipe idle.
C15_OneCycleInFlight ==
    /\ [][ ev' \in {"startCreate", "startVariation"} =>
              /\ ~loading
              /\ genPc = "idle"
              /\ loading' ]_vars
    /\ [](genPc # "idle" => loading)

C15_Witness ==
    /\ loading
    /\ genPc = "image"
    /\ PageReachable
    /\ recipe = Null
    /\ Trim(input) # << >>

\* C16, as stated: at most one delivered stream is live at any time, and
\* while the camera UI is closed no delivered stream is live.
C16_OneStreamNoneWhenIdle ==
    /\ Cardinality(live) <= 1
    /\ ~isCameraOpen => live = {}

\* C17: the image call is issued only by the step in which the structured
\* call returned a text that parsed; a structured call that fails ends the
\* cycle without an image call; a recipe is displayed only by the step that
\* completes the image call.
C17_TextThenImageThenDisplay ==
    [][ /\ (genPc' = "image" /\ genPc # "image") =>
              /\ genPc = "text"
              /\ ev' = "textOk"
              /\ recipeData' # Null
        /\ ev' \in TextFailed => genPc = "text" /\ genPc' = "idle"
        /\ (recipe' # recipe /\ recipe' # Null) =>
              /\ genPc = "image"
              /\ ev' \in ImageDone ]_vars

C17_Witness ==
    /\ ev = "textOk"
    /\ genPc = "image"
    /\ recipeData # Null
    /\ recipe = Null
    /\ loading

\* C18: in every reachable state 0 <= variationCount <= 3.
C18_CounterInRange ==
    variationCount \in 0..VariationLimit

C18_Witness ==
    /\ variationCount = VariationLimit
    /\ ev \in ImageDone
    /\ genIsVariation

\* C19: the step that starts a non-variation cycle sets variationCount to 0,
\* the counter is 0 for the whole of that cycle and when it ends, by success
\* or by failure; the step that starts a variation cycle leaves it as it was.
C19_FreshStartZeroesCounter ==
    /\ [][ /\ ev' = "startCreate" => variationCount' = 0 /\ ~genIsVariation'
           /\ ev' = "startVariation" =>
                 variationCount' = variationCount /\ genIsVariation'
           /\ (ev' \in (ImageDone \cup TextFailed) /\ ~genIsVariation) =>
                 variationCount' = 0 ]_vars
    /\ []((genPc # "idle" /\ ~genIsVariation) => variationCount = 0)

C19_Witness ==
    /\ ev = "startCreate"
    /\ variationCount = 0
    /\ genPc = "text"
    /\ loading
    /\ ~genIsVariation
    /\ Trim(input) # << >>

\* C20, as stated: when an analysis completes while the camera UI is open for
\* a later capture session than the one that started it, the completion
\* leaves that session's camera UI open and its stream attached and live.
C20_CompletionKeepsLaterSession ==
    [][ (ev' \in VisionDone /\ isCameraOpen /\ analysisSession # requests) =>
          /\ isCameraOpen'
          /\ srcObject' = srcObject
          /\ live' = live ]_vars

C22_RecipeReplacedOrCleared ==
    [][ /\ ev' = "imageOk" => recipe' = Some(WithImage(recipeData[1], "iVBOR"))
        /\ ev' \in {"imageThrow", "imageNone"} => recipe' = recipeData
        /\ ev' = "reset" => recipe' = Null
        /\ ev' \notin (ImageDone \cup {"reset"}) => recipe' = recipe ]_vars

C22_Witness ==
    /\ ev = "copy"
    /\ recipe # Null
    /\ recipe[1].imageUrl # Null
    /\ clipboard = GetMarkdownRecipe(recipe)
    /\ threadRecipes = 2
    /\ acquired > 0
    /\ preference # ""
    /\ shared # Null
====
